---- MODULE Spec2Model ----
(***************************************************************************)
(* Recovery ledger (helpers/self_healing.py) and recovery-aware client     *)
(* session (helpers/api_client.py) of the hotel-booking API test suite.    *)
(*                                                                         *)
(* Time is counted in hours (the granularity of the token lifetime); a     *)
(* client operation runs to completion at one clock reading.  The remote   *)
(* service and the file system are the environment: every network call     *)
(* returns a response or raises, every write of the backing file succeeds, *)
(* fails before touching the file, or fails after open(..., "w") has       *)
(* truncated it.  A request is one call of the requests session, the       *)
(* retries of its transport included.  get_booking and health_check read   *)
(* the service only and touch neither the session nor the file; they are   *)
(* left out.                                                               *)
(*                                                                         *)
(* The store is also driven alone, call by call, from no file and from     *)
(* contents of the file that hold no ledger (NextStore), and by two        *)
(* sessions that share the file and whose loads and saves interleave       *)
(* (NextShared).                                                           *)
(***************************************************************************)
EXTENDS Integers, Sequences, FiniteSets, TLC

\* ---------------------------------------------------------------- bounds
MaxId == 2
MaxTime == 1

\* ---------------------------------------------------- program constants
TokenTTL == 1
StatusOK == 200
StatusDeleted == 201

\* ------------------------------------------------------- value encoding
\* Python None for Optional[str], Optional[int] and Optional[datetime].  None
\* and "" are one value for a token: both are falsy, and no test of the code
\* on a token tells them apart.
NoneTok == <<>>
NoneId == -1
NoneTime == -1

Quote == "\""

\* Tokens are strings, kept as sequences of characters: an ordinary token
\* and one that holds a double quote.
Tokens == {<<"a">>, <<"x", Quote>>}
Ids == 0..MaxId
\* update_booking and partial_update_booking use their id in the URL only.
UpdateIds == {MaxId}

\* Python truthiness of an Optional[str] (None and "" are falsy) ...
TruthyTok(t) == Len(t) > 0
\* ... and of an Optional[int] (None and 0 are falsy).
TruthyId(b) == b # NoneId /\ b # 0

Range(s) == {s[i] : i \in 1..Len(s)}
Min(S) == CHOOSE x \in S : \A y \in S : x <= y
Max(S) == CHOOSE x \in S : \A y \in S : x >= y

\* ------------------------------------------------------------ dict / JSON
\* A Python dict is a function from its keys.
EmptyDict == <<>>
Get(d, k, default) == IF k \in DOMAIN d THEN d[k] ELSE default
Put(d, k, v) == (k :> v) @@ d

Backslash == "\\"

\* The backslashes that stand in a row just before position i of a text.
BackslashesBefore(chars, i) ==
  (i - 1) - Max({0} \cup {j \in 1..(i - 1) : chars[j] # Backslash})

\* Position i of a JSON string body opens an escape: a backslash that is not
\* itself escaped.
OpensEscape(chars, i) ==
  chars[i] = Backslash /\ BackslashesBefore(chars, i) % 2 = 0

\* json.dump of a str, between its quotes: a double quote and a backslash
\* are written after a backslash, the other characters of the model's
\* tokens as they are.  At(k) is the character of s that position k of the
\* text comes from.
\* An encoding that writes the characters of the string as they are.
json_dumps_string_raw(s) == s

json_dumps_string(s) ==
  LET special == {i \in 1..Len(s) : s[i] \in {Quote, Backslash}}
      start(i) == i + Cardinality({j \in special : j < i})
      At(k) == Max({i \in 1..Len(s) : start(i) <= k})
  IN [k \in 1..(Len(s) + Cardinality(special)) |->
        IF At(k) \in special /\ k = start(At(k)) THEN Backslash ELSE s[At(k)]]

\* json.load of a str, between its quotes: the characters that open no
\* escape, in order; the text is not valid JSON when it holds a bare double
\* quote or an escape of a character other than a double quote or a
\* backslash (the characters of the model have no other escape).
json_loads_string(chars) ==
  LET kept == {i \in 1..Len(chars) : ~OpensEscape(chars, i)}
      Nth(k) == CHOOSE i \in kept : Cardinality({j \in kept : j <= i}) = k
  IN [ok |-> \A i \in 1..Len(chars) :
               /\ OpensEscape(chars, i)
                  => (i < Len(chars) /\ chars[i + 1] \in {Quote, Backslash})
               /\ chars[i] = Quote => BackslashesBefore(chars, i) % 2 = 1,
      value |-> [k \in 1..Cardinality(kept) |-> chars[Nth(k)]]]

\* json.loads reading a string value from just after its opening quote, in
\* a text where the closing quote must be followed by the closing brace: the
\* decoded string, or a failure when the text is not valid JSON.  The string
\* ends at the first quote (the bodies authenticate() builds hold no
\* backslash, so no character of them is escaped).
json_scan_string(chars) ==
  LET quotes == {i \in 1..Len(chars) : chars[i] = Quote}
  IN IF quotes = {} THEN [ok |-> FALSE, value |-> NoneTok]
     ELSE LET e == Min(quotes)
          IN IF e + 1 = Len(chars) /\ chars[e + 1] = "}"
             THEN [ok |-> TRUE, value |-> SubSeq(chars, 1, e - 1)]
             ELSE [ok |-> FALSE, value |-> NoneTok]

TokenBodyPrefix == <<"{", Quote, "token", Quote, ":", Quote>>
TokenBodySuffix == <<Quote, "}">>

\* json.loads of a body of the shape {"token":"...
json_loads(content) ==
  IF Len(content) >= Len(TokenBodyPrefix)
     /\ SubSeq(content, 1, Len(TokenBodyPrefix)) = TokenBodyPrefix
  THEN LET r == json_scan_string(
                  SubSeq(content, Len(TokenBodyPrefix) + 1, Len(content)))
       IN IF r.ok THEN [ok |-> TRUE, value |-> ("token" :> r.value)]
          ELSE [ok |-> FALSE, value |-> EmptyDict]
  ELSE [ok |-> FALSE, value |-> EmptyDict]

\* ------------------------------------------------------------- responses
\* A requests.Response: a response of the service carries its parsed body,
\* the response authenticate() builds itself carries raw content.
Response(status, body) ==
  [status |-> status, body |-> body, content |-> <<>>, synthetic |-> FALSE]
NoResponse == Response(0, EmptyDict)

\* response.json()
json(resp) ==
  IF resp.synthetic THEN json_loads(resp.content)
  ELSE [ok |-> TRUE, value |-> resp.body]

\* ---------------------------------------------------------- backing file
AbsentFile == [kind |-> "absent", data |-> EmptyDict]
CorruptFile == [kind |-> "corrupt", data |-> EmptyDict]
\* A file that holds a JSON object; `data` is the object with its token in
\* the text json.dump gave it.
JsonFile(data) == [kind |-> "json", data |-> data]
\* A file that holds valid JSON that is no object: the array [].
ArrayFile == [kind |-> "array", data |-> EmptyDict]

DiskOutcomes == {"ok", "fail", "torn"}

\* json.dump of the tokens of the model and json.load of their texts,
\* computed once; dumps and loads look a str up and compute any other.
DumpedToken == [t \in Tokens |-> json_dumps_string(t)]
LoadedToken ==
  [c \in {DumpedToken[t] : t \in Tokens} |-> json_loads_string(c)]
dumps(s) == IF s \in DOMAIN DumpedToken THEN DumpedToken[s] ELSE json_dumps_string(s)
loads(c) == IF c \in DOMAIN LoadedToken THEN LoadedToken[c] ELSE json_loads_string(c)

\* json.dump and json.load of the ledger: the token is a str and travels as
\* JSON text, the ids and the timestamps as they are.
json_dump(data) ==
  IF "token" \in DOMAIN data
  THEN [data EXCEPT !["token"] = dumps(@)]
  ELSE data
json_load_ok(text) ==
  "token" \in DOMAIN text => loads(text["token"]).ok
json_load(text) ==
  IF "token" \in DOMAIN text
  THEN [text EXCEPT !["token"] = loads(@).value]
  ELSE text

\* _load_data: {} for an absent file and for one json.load cannot decode.
\* For ArrayFile it returns the list [], which like {} holds no key;
\* LoadsDict tells whether what it returns is a dict.
load_data(f) ==
  IF f.kind = "json" /\ json_load_ok(f.data) THEN json_load(f.data)
  ELSE EmptyDict
LoadsDict(f) == f.kind # "array"

\* What a store operation did: the file it left, whether it raised and
\* whether a write of the file failed.  NoWrite: it wrote nothing.
NoWrite(f, raised) == [file |-> f, raised |-> raised, wfail |-> FALSE]

\* open(DATA_FILE, "w") and json.dump.
save_data(f, data, disk) ==
  CASE disk = "ok" ->
         [file |-> JsonFile(json_dump(data)), raised |-> FALSE, wfail |-> FALSE]
    [] disk = "fail" -> [file |-> f, raised |-> TRUE, wfail |-> TRUE]
    [] OTHER -> [file |-> CorruptFile, raised |-> TRUE, wfail |-> TRUE]

\* A store_token that writes a ledger of its own.
store_token_alone(f, token, t, disk) ==
  IF LoadsDict(f)
  THEN save_data(f, Put(Put(EmptyDict, "token", token),
                        "token_timestamp", t), disk)
  ELSE NoWrite(f, TRUE)

\* data["token"] = token raises on a list.
store_token(f, token, t, disk) ==
  IF LoadsDict(f)
  THEN save_data(f, Put(Put(load_data(f), "token", token),
                        "token_timestamp", t), disk)
  ELSE NoWrite(f, TRUE)

\* data.get raises on a list: get_token and get_booking_ids raise.
get_raises(f) == ~LoadsDict(f)

get_token(f) == Get(load_data(f), "token", NoneTok)

\* A store_booking_id that appends the id without looking for it.
with_booking_id_appended(data, ids, booking_id, t) ==
  Put(Put(data, "booking_ids", Append(ids, booking_id)), "last_updated", t)

\* store_booking_id, lines 29-33, on the loaded data
with_booking_id(data, ids, booking_id, t) ==
  Put(Put(data, "booking_ids",
          IF booking_id \in Range(ids) THEN ids ELSE Append(ids, booking_id)),
      "last_updated", t)

\* data["booking_ids"] = [] raises on a list.
store_booking_id(f, booking_id, t, disk) ==
  IF LoadsDict(f)
  THEN save_data(f, with_booking_id(load_data(f),
                                    Get(load_data(f), "booking_ids", <<>>),
                                    booking_id, t),
                 disk)
  ELSE NoWrite(f, TRUE)

get_booking_ids(f) == Get(load_data(f), "booking_ids", <<>>)

\* list.remove: drops the first occurrence.
ListRemove(s, x) ==
  LET i == CHOOSE j \in 1..Len(s) : s[j] = x /\ \A k \in 1..(j - 1) : s[k] # x
  IN SubSeq(s, 1, i - 1) \o SubSeq(s, i + 1, Len(s))

\* A remove_booking_id that writes the ledger back when the id is not in it.
remove_from_saved(f, data, booking_id, disk) ==
  IF "booking_ids" \in DOMAIN data /\ booking_id \in Range(data["booking_ids"])
  THEN save_data(f, Put(data, "booking_ids",
                        ListRemove(data["booking_ids"], booking_id)), disk)
  ELSE save_data(f, data, disk)

\* remove_booking_id, lines 46-48, on the loaded data
remove_from(f, data, booking_id, disk) ==
  IF "booking_ids" \in DOMAIN data /\ booking_id \in Range(data["booking_ids"])
  THEN save_data(f, Put(data, "booking_ids",
                        ListRemove(data["booking_ids"], booking_id)), disk)
  ELSE NoWrite(f, FALSE)

remove_booking_id(f, booking_id, disk) ==
  remove_from(f, load_data(f), booking_id, disk)

\* A clear that writes the ledger back as it is.
clear_store_kept(f, disk) == save_data(f, load_data(f), disk)

\* SelfHealing.cleanup_test_data
clear_store(f, disk) == save_data(f, EmptyDict, disk)

\* ------------------------------------------------------------ environment
\* What a network call does: it raises (connection failure, retries
\* exhausted, a body response.json() cannot parse) or returns a response.
Raises == [raise |-> TRUE, resp |-> NoResponse]
Returns(resp) == [raise |-> FALSE, resp |-> resp]

AuthNets ==
  {Raises} \cup {Returns(Response(StatusOK, "token" :> t)) : t \in Tokens}
           \cup {Returns(Response(StatusOK, EmptyDict)),
                 Returns(Response(401, EmptyDict))}
CreateNets ==
  {Raises} \cup {Returns(Response(StatusOK, "bookingid" :> b)) : b \in Ids}
           \cup {Returns(Response(StatusOK, EmptyDict)),
                 Returns(Response(400, "bookingid" :> MaxId))}
UpdateNets == {Raises, Returns(Response(StatusOK, EmptyDict)),
               Returns(Response(403, EmptyDict))}
DeleteNets == {Raises, Returns(Response(StatusDeleted, EmptyDict)),
               Returns(Response(404, EmptyDict))}

\* ---------------------------------------------------------------- client
\* The session and the file it works on: w = [token, token_expiry, file].
\* Every client operation maps w, the clock and what the environment does
\* to the new w, the requests it issued, its response and whether it raised;
\* calls are the store operations it called to record something and wfail
\* tells that a write of the file failed.
Result(w, reqs, resp, raised) ==
  [w |-> w, reqs |-> reqs, resp |-> resp, raised |-> raised,
   calls |-> <<>>, wfail |-> FALSE]

\* The result of the store operation `op`, called at the end of a client
\* operation: its exception leaves the client operation.
Stored(r, op, st) ==
  [r EXCEPT !.w.file = st.file,
            !.resp = IF st.raised THEN NoResponse ELSE @,
            !.raised = st.raised,
            !.calls = Append(@, op),
            !.wfail = st.wfail]

\* The result of a request issued after `a`, the outcome of ensure_token.
After(a, verb, resp, raised) ==
  [a EXCEPT !.reqs = Append(@, verb), !.resp = resp, !.raised = raised]

\* BookingAPIClient.__init__ with _attempt_self_healing
attempt_self_healing(f) ==
  [token |-> IF TruthyTok(get_token(f)) THEN get_token(f) ELSE NoneTok,
   token_expiry |-> NoneTime,
   file |-> f]

is_token_valid(w, t) ==
  IF ~TruthyTok(w.token) \/ w.token_expiry = NoneTime THEN FALSE
  ELSE t < w.token_expiry

\* The response authenticate() builds around the cached token.
cached_response(token) ==
  [status |-> StatusOK, body |-> EmptyDict,
   content |-> TokenBodyPrefix \o token \o TokenBodySuffix,
   synthetic |-> TRUE]

\* A token kept with the clock reading as its expiry.
auth_stored_no_ttl(w, t, response, tok, stored) ==
  Stored(Result([w EXCEPT !.token = tok, !.token_expiry = t],
                <<"AUTH">>, response, FALSE),
         "store_token", stored)

\* authenticate, lines 88-96: the token of a 200 response is kept, given
\* its expiry and stored; `stored` is what store_token did.
auth_stored(w, t, response, tok, stored) ==
  Stored(Result([w EXCEPT !.token = tok, !.token_expiry = t + TokenTTL],
                <<"AUTH">>, response, FALSE),
         "store_token", stored)

\* An authenticate that takes the token of the body before it reads the
\* status.
auth_response_token_first(w, t, response, tok, disk) ==
  IF response.status = StatusOK /\ TruthyTok(tok)
  THEN auth_stored(w, t, response, tok, store_token(w.file, tok, t, disk))
  ELSE Result([w EXCEPT !.token = tok], <<"AUTH">>, response, FALSE)

\* authenticate, lines 86-96: the response of the service has arrived.
auth_response(w, t, response, tok, disk) ==
  IF response.status = StatusOK
  THEN IF TruthyTok(tok)
       THEN auth_stored(w, t, response, tok, store_token(w.file, tok, t, disk))
       ELSE Result([w EXCEPT !.token = tok], <<"AUTH">>, response, FALSE)
  ELSE Result(w, <<"AUTH">>, response, FALSE)

\* env = [net, disk]
authenticate(w, t, env) ==
  IF is_token_valid(w, t)
  THEN Result(w, <<>>, cached_response(w.token), FALSE)
  ELSE IF env.net.raise
  THEN Result(w, <<"AUTH">>, NoResponse, TRUE)
  ELSE auth_response(w, t, env.net.resp,
                     Get(json(env.net.resp).value, "token", NoneTok), env.disk)

\* create_booking, lines 113-117: `stored` is what store_booking_id did.
create_stored_swallowed(w, response, stored) ==
  [Stored(Result(w, <<"POST">>, response, FALSE), "store_booking_id", stored)
     EXCEPT !.resp = response, !.raised = FALSE]

create_stored(w, response, stored) ==
  Stored(Result(w, <<"POST">>, response, FALSE), "store_booking_id", stored)

\* A create_booking that records the id whatever the status is.
create_response_any_status(w, t, response, booking_id, disk) ==
  IF TruthyId(booking_id)
  THEN create_stored(w, response,
                     store_booking_id(w.file, booking_id, t, disk))
  ELSE Result(w, <<"POST">>, response, FALSE)

\* create_booking, lines 111-117: the response of the service has arrived.
create_response(w, t, response, booking_id, disk) ==
  IF response.status = StatusOK /\ TruthyId(booking_id)
  THEN create_stored(w, response,
                     store_booking_id(w.file, booking_id, t, disk))
  ELSE Result(w, <<"POST">>, response, FALSE)

\* env = [net, disk]
create_booking(w, t, env) ==
  IF env.net.raise
  THEN Result(w, <<"POST">>, NoResponse, TRUE)
  ELSE create_response(w, t, env.net.resp,
                       Get(json(env.net.resp).value, "bookingid", NoneId),
                       env.disk)

\* An operation that goes on with the token it holds, valid or not.
ensure_token_skipped(w, t, env) == Result(w, <<>>, NoResponse, FALSE)

\* if not self._is_token_valid(): self.authenticate()
ensure_token(w, t, env) ==
  IF ~is_token_valid(w, t) THEN authenticate(w, t, env)
  ELSE Result(w, <<>>, NoResponse, FALSE)

\* The request of update_booking (PUT) and partial_update_booking (PATCH),
\* after `a`, the outcome of ensure_token.
send_update(a, verb, net) ==
  IF a.raised THEN a
  ELSE IF net.raise
    THEN After(a, verb, NoResponse, TRUE)
    ELSE After(a, verb, net.resp, FALSE)

\* env = [auth, net, disk]
update_booking(w, t, booking_id, env) ==
  send_update(ensure_token(w, t, env.auth), "PUT", env.net)

partial_update_booking(w, t, booking_id, env) ==
  send_update(ensure_token(w, t, env.auth), "PATCH", env.net)

\* delete_booking, lines 213-217: `removed` is what remove_booking_id did.
delete_removed(a, response, removed) ==
  Stored(After(a, "DELETE", response, FALSE), "remove_booking_id", removed)

\* A delete that removes the id whatever status the service returns.
send_delete_any_status(a, booking_id, env) ==
  IF a.raised THEN a
  ELSE IF env.net.raise
    THEN After(a, "DELETE", NoResponse, TRUE)
    ELSE delete_removed(a, env.net.resp,
                        remove_booking_id(a.w.file, booking_id, env.disk))

\* delete_booking, lines 205-217, after `a`, the outcome of ensure_token.
send_delete(a, booking_id, env) ==
  IF a.raised THEN a
  ELSE IF env.net.raise
    THEN After(a, "DELETE", NoResponse, TRUE)
    ELSE IF env.net.resp.status = StatusDeleted
      THEN delete_removed(a, env.net.resp,
                          remove_booking_id(a.w.file, booking_id, env.disk))
      ELSE After(a, "DELETE", env.net.resp, FALSE)

delete_booking(w, t, booking_id, env) ==
  send_delete(ensure_token(w, t, env.auth), booking_id, env)

\* cleanup_test_data runs as a loop, one turn per id read at its start: a
\* turn is the call of delete_booking in the try block, whose exception is
\* caught and logged; the sweep ends with clear_store.
sweep_caught(booking_id, r) ==
  [w |-> r.w, id |-> booking_id, reqs |-> r.reqs, resp |-> r.resp,
   raised |-> r.raised, calls |-> r.calls, wfail |-> r.wfail,
   warned |-> r.raised]

\* A loop that takes the first id at every turn.
sweep_turn_first(w, t, ids, k, env) ==
  sweep_caught(ids[1], delete_booking(w, t, ids[1], env))

sweep_turn(w, t, ids, k, env) ==
  sweep_caught(ids[k], delete_booking(w, t, ids[k], env))

\* ------------------------------------------- what the environment may do
\* Only the choices an operation reads are enumerated: no disk outcome when
\* nothing is written, no later call when an earlier one raised.
StoresToken(net) ==
  ~net.raise /\ net.resp.status = StatusOK
  /\ TruthyTok(Get(net.resp.body, "token", NoneTok))

AuthEnvs ==
  {e \in [net : AuthNets, disk : DiskOutcomes] :
     StoresToken(e.net) \/ e.disk = "ok"}

AuthRaises(e) == e.net.raise \/ (StoresToken(e.net) /\ e.disk # "ok")

NoAuthEnv == [net |-> Raises, disk |-> "ok"]

EnsureEnvs(w, t) == IF is_token_valid(w, t) THEN {NoAuthEnv} ELSE AuthEnvs

CreateEnvs ==
  {e \in [net : CreateNets, disk : DiskOutcomes] :
     \/ e.disk = "ok"
     \/ /\ ~e.net.raise
        /\ e.net.resp.status = StatusOK
        /\ TruthyId(Get(e.net.resp.body, "bookingid", NoneId))}

\* The outcomes read by update_booking and partial_update_booking, with a
\* token that is valid and with one that is not: a request is sent when the
\* re-authentication did not raise.
UpdateEnvsWith(auths) ==
  {e \in [auth : auths, net : UpdateNets, disk : {"ok"}] :
     (auths = AuthEnvs /\ AuthRaises(e.auth)) => e.net = Raises}
UpdateEnvsValid == UpdateEnvsWith({NoAuthEnv})
UpdateEnvsInvalid == UpdateEnvsWith(AuthEnvs)

UpdateEnvs(w, t) ==
  IF is_token_valid(w, t) THEN UpdateEnvsValid ELSE UpdateEnvsInvalid

\* The ids delete_booking is called with: those of the ledger and one that
\* is not in it, the least; the calls for two ids that are not in the ledger
\* differ by the id in the URL only. (DeleteBooking adds the ids that the
\* history tracks.)
DeleteIds(f) ==
  Range(get_booking_ids(f))
    \cup {b \in Ids : /\ b \notin Range(get_booking_ids(f))
                      /\ \A c \in 0..(b - 1) : c \in Range(get_booking_ids(f))}

\* The outcomes read by delete_booking: the disk is written after a 201
\* response only, and a remove_booking_id of an id that is not in the ledger
\* does not write.
DeleteEnvsWith(auths, disks) ==
  {e \in [auth : auths, net : DeleteNets, disk : disks] :
     /\ (auths = AuthEnvs /\ AuthRaises(e.auth))
          => (e.net = Raises /\ e.disk = "ok")
     /\ (e.net.raise \/ e.net.resp.status # StatusDeleted) => e.disk = "ok"}
DeleteEnvsTable ==
  [valid \in BOOLEAN, tracked_id \in BOOLEAN |->
     DeleteEnvsWith(IF valid THEN {NoAuthEnv} ELSE AuthEnvs,
                    IF tracked_id THEN DiskOutcomes ELSE {"ok"})]

DeleteEnvs(w, t, booking_id) ==
  DeleteEnvsTable[is_token_valid(w, t),
                  booking_id \in Range(get_booking_ids(w.file))]

\* ----------------------------------------------------------------- state
VARIABLES
  now,           \* the clock, in hours
  token,         \* BookingAPIClient.token
  token_expiry,  \* BookingAPIClient.token_expiry
  file,          \* the contents of SelfHealing.DATA_FILE
  pc,            \* "idle" between operations, "sweep" inside cleanup_test_data
  booking_ids,   \* cleanup_test_data: the list it iterates over
  pos,           \* cleanup_test_data: the turns of the loop done
  observe,       \* history: the operations whose outcome `last` records, and
                 \* "ledger" when `tracked` is kept; fixed from the start
  tracked,       \* history: ids created (status 200) and not deleted (201)
                 \* since the last clear
  last,          \* history: the observed operation that ran last, its outcome
  sessions       \* the sessions that share the file: where each one is in
                 \* the store operation it runs, and the data it loaded

vars == <<now, token, token_expiry, file, pc, booking_ids, pos,
          observe, tracked, last, sessions>>

\* Test sessions (pytest-xdist workers) that run over the same DATA_FILE.
Sessions == {"gw0", "gw1"}

\* A session outside a store operation: pc is "idle", then "loaded" between
\* _load_data and _save_data, "opened" between open(..., "w") and json.dump;
\* data is what it loaded, with its change; acted tells that it ran an
\* operation; mixed, that another session wrote the file since it opened it.
NoSession == [pc |-> "idle", data |-> EmptyDict, acted |-> FALSE,
              mixed |-> FALSE]

World == [token |-> token, token_expiry |-> token_expiry, file |-> file]

\* last.first: a sweep that is the first operation of its session;
\* last.ids: the ids the operation read from the ledger; last.turns: the ids
\* the turns of the sweep were for, in order; last.unsent: those of them
\* whose turn issued no DELETE request; last.warned: the turn of the sweep
\* logged a warning. With "writes" observed, last.calls are the store
\* operations the operation called to record something, last.wfail tells
\* that a write of the file failed in it, and last.swallowed that one failed
\* in an earlier turn of the sweep.
ObservedCalls(calls) == IF "writes" \in observe THEN calls ELSE <<>>
ObservedFailure(wfail) == "writes" \in observe /\ wfail

Last(op, booking_id, r) ==
  [op |-> op, id |-> booking_id, reqs |-> r.reqs, resp |-> r.resp,
   raised |-> r.raised, first |-> FALSE,
   ids |-> <<>>, turns |-> <<>>, unsent |-> <<>>,
   calls |-> ObservedCalls(r.calls), wfail |-> ObservedFailure(r.wfail),
   swallowed |-> FALSE, warned |-> FALSE]

Quiet == Result(World, <<>>, NoResponse, FALSE)
Unobserved == Last("other", NoneId, Quiet)

\* With "writes" observed, an operation that is not observed by its name
\* is recorded by how it ended only.
Brief(rec) ==
  [Unobserved EXCEPT !.op = rec.op, !.raised = rec.raised,
                     !.wfail = rec.wfail, !.swallowed = rec.swallowed,
                     !.warned = rec.warned]
Unnamed(rec) == IF "writes" \in observe THEN Brief(rec) ELSE Unobserved

Observed(op, rec) == IF op \in observe THEN rec ELSE Unnamed(rec)

\* A sweep is observed with "cleanup_test_data", and with "recovery" when it
\* is the first operation of a new session; its turns and its end are
\* observed when its beginning was.
ObservedSweep(rec) ==
  IF "cleanup_test_data" \in observe
     \/ ("recovery" \in observe /\ last.op = "new")
  THEN rec ELSE Unnamed(rec)
InObservedSweep(rec) ==
  IF last.op \in {"cleanup_begin", "cleanup_turn"}
  THEN IF "cleanup_test_data" \in observe \/ "recovery" \in observe
       THEN rec ELSE Brief(rec)
  ELSE Unobserved

SetWorld(w) ==
  /\ token' = w.token
  /\ token_expiry' = w.token_expiry
  /\ file' = w.file

Track(ids) == tracked' = IF "ledger" \in observe THEN ids ELSE tracked

\* The state after BookingAPIClient() over no file.
InitObserving(ops) ==
  /\ now = 0
  /\ file = AbsentFile
  /\ token = attempt_self_healing(AbsentFile).token
  /\ token_expiry = attempt_self_healing(AbsentFile).token_expiry
  /\ pc = "idle"
  /\ booking_ids = <<>>
  /\ pos = 0
  /\ observe = ops
  /\ tracked = {}
  /\ sessions = [s \in Sessions |-> NoSession]
  /\ last = Last("other", NoneId,
                 Result(attempt_self_healing(AbsentFile), <<>>, NoResponse, FALSE))

Init == InitObserving({})

\* An hour passes between two operations.
Tick ==
  /\ pc = "idle"
  /\ now < MaxTime
  /\ now' = now + 1
  /\ last' = Unobserved
  /\ UNCHANGED <<token, token_expiry, file, pc, booking_ids, pos,
                 observe, sessions, tracked>>

\* The session ends between two operations, by a crash or normally, and a
\* new BookingAPIClient is constructed over the same file.
NewSession ==
  /\ pc = "idle"
  /\ SetWorld(attempt_self_healing(file))
  /\ last' = Observed("new", [Last("new", NoneId, Quiet) EXCEPT
                                !.ids = get_booking_ids(file)])
  /\ UNCHANGED <<now, pc, booking_ids, pos, observe, sessions, tracked>>

Authenticate ==
  /\ pc = "idle"
  /\ \E env \in EnsureEnvs(World, now) :
       \E r \in {authenticate(World, now, env)} :
         /\ SetWorld(r.w)
         /\ last' = Observed("authenticate", Last("authenticate", NoneId, r))
  /\ UNCHANGED <<now, pc, booking_ids, pos, observe, sessions, tracked>>

CreateBooking ==
  /\ pc = "idle"
  /\ \E env \in CreateEnvs :
       \E r \in {create_booking(World, now, env)} :
         /\ SetWorld(r.w)
         /\ last' = Observed("create_booking",
                             Last("create_booking", NoneId, r))
         /\ Track(IF ~r.raised /\ r.resp.status = StatusOK
                     /\ "bookingid" \in DOMAIN r.resp.body
                  THEN tracked \cup {r.resp.body["bookingid"]} ELSE tracked)
  /\ UNCHANGED <<now, pc, booking_ids, pos, observe, sessions>>

UpdateBooking ==
  /\ pc = "idle"
  /\ \E booking_id \in UpdateIds : \E env \in UpdateEnvs(World, now) :
       \E r \in {update_booking(World, now, booking_id, env)} :
         /\ SetWorld(r.w)
         /\ last' = Observed("update_booking",
                             Last("update_booking", booking_id, r))
  /\ UNCHANGED <<now, pc, booking_ids, pos, observe, sessions, tracked>>

PartialUpdateBooking ==
  /\ pc = "idle"
  /\ \E booking_id \in UpdateIds : \E env \in UpdateEnvs(World, now) :
       \E r \in {partial_update_booking(World, now, booking_id, env)} :
         /\ SetWorld(r.w)
         /\ last' = Observed("partial_update_booking",
                             Last("partial_update_booking", booking_id, r))
  /\ UNCHANGED <<now, pc, booking_ids, pos, observe, sessions, tracked>>

DeleteBooking ==
  /\ pc = "idle"
  /\ \E booking_id \in DeleteIds(file) \cup tracked :
       \E env \in DeleteEnvs(World, now, booking_id) :
       \E r \in {delete_booking(World, now, booking_id, env)} :
         /\ SetWorld(r.w)
         /\ last' = Observed("delete_booking",
                             Last("delete_booking", booking_id, r))
         /\ Track(IF ~r.raised /\ r.resp.status = StatusDeleted
                  THEN tracked \ {booking_id} ELSE tracked)
  /\ UNCHANGED <<now, pc, booking_ids, pos, observe, sessions>>

\* cleanup_test_data, line 233: booking_ids = SelfHealing.get_booking_ids()
CleanupBegin ==
  /\ pc = "idle"
  /\ pc' = "sweep"
  /\ booking_ids' = get_booking_ids(file)
  /\ pos' = 0
  /\ last' = ObservedSweep([Last("cleanup_begin", NoneId, Quiet) EXCEPT
                              !.first = (last.op = "new"),
                              !.ids = get_booking_ids(file)])
  /\ UNCHANGED <<now, token, token_expiry, file, observe, sessions, tracked>>

\* cleanup_test_data, lines 234-238: one turn of the loop
CleanupTurn ==
  /\ pc = "sweep"
  /\ pos < Len(booking_ids)
  /\ \E env \in DeleteEnvs(World, now, booking_ids[pos + 1]) :
       \E r \in {sweep_turn(World, now, booking_ids, pos + 1, env)} :
         /\ SetWorld(r.w)
         /\ last' = InObservedSweep(
                       [last EXCEPT
                          !.op = "cleanup_turn", !.id = r.id,
                          !.reqs = r.reqs, !.resp = r.resp,
                          !.raised = r.raised,
                          !.calls = ObservedCalls(r.calls),
                          !.wfail = ObservedFailure(r.wfail),
                          !.swallowed = @ \/ ObservedFailure(r.wfail),
                          !.warned = r.warned,
                          !.turns = Append(@, r.id),
                          !.unsent = IF "DELETE" \in Range(r.reqs)
                                     THEN @ ELSE Append(@, r.id)])
         /\ Track(IF ~r.raised /\ r.resp.status = StatusDeleted
                  THEN tracked \ {r.id} ELSE tracked)
  /\ pos' = pos + 1
  /\ UNCHANGED <<now, pc, booking_ids, observe, sessions>>

\* cleanup_test_data, line 240: SelfHealing.cleanup_test_data()
CleanupEnd ==
  /\ pc = "sweep"
  /\ pos = Len(booking_ids)
  /\ \E disk \in DiskOutcomes :
       \E st \in {clear_store(file, disk)} :
         /\ file' = st.file
         /\ last' = InObservedSweep(
                       [last EXCEPT
                          !.op = "cleanup_test_data", !.id = NoneId,
                          !.reqs = <<>>, !.resp = NoResponse,
                          !.raised = st.raised,
                          !.calls = ObservedCalls(<<"cleanup_test_data">>),
                          !.wfail = ObservedFailure(st.wfail),
                          !.warned = FALSE])
         /\ Track(IF st.raised THEN tracked ELSE {})
  /\ pc' = "idle"
  /\ booking_ids' = <<>>
  /\ pos' = 0
  /\ UNCHANGED <<now, token, token_expiry, observe, sessions>>

Next ==
  \/ Tick
  \/ NewSession
  \/ Authenticate
  \/ CreateBooking
  \/ UpdateBooking
  \/ PartialUpdateBooking
  \/ DeleteBooking
  \/ CleanupBegin
  \/ CleanupTurn
  \/ CleanupEnd

\* The program, and the program with the history a family of claims reads.
Spec == Init /\ [][Next]_vars
SpecAuth == InitObserving({"new", "authenticate"}) /\ [][Next]_vars
SpecCreate == InitObserving({"create_booking"}) /\ [][Next]_vars
SpecMutate ==
  InitObserving({"update_booking", "partial_update_booking", "delete_booking"})
  /\ [][Next]_vars
SpecDelete == InitObserving({"delete_booking"}) /\ [][Next]_vars
SpecSweep == InitObserving({"cleanup_test_data"}) /\ [][Next]_vars
SpecRecover == InitObserving({"new", "recovery"}) /\ [][Next]_vars
SpecLedger == InitObserving({"ledger"}) /\ [][Next]_vars
SpecCreateDelete ==
  InitObserving({"create_booking", "delete_booking"}) /\ [][Next]_vars
SpecBookkeeping ==
  InitObserving({"create_booking", "update_booking", "partial_update_booking",
                 "delete_booking", "writes"}) /\ [][Next]_vars
SpecWrites == InitObserving({"writes"}) /\ [][Next]_vars

\* ------------------------------------------- the store, called directly
\* The operations of SelfHealing and the construction of a client, each
\* called on the file as it is.  last.file0 is the file before the call.
StoreCall(op, arg, value, st) ==
  [op |-> op, arg |-> arg, value |-> value, raised |-> st.raised,
   wfail |-> st.wfail, file0 |-> file]

StoreOps == {"store_token", "get_token", "store_booking_id",
             "get_booking_ids", "remove_booking_id", "clear", "construct"}

StoreToken ==
  /\ pc = "idle"
  /\ \E t \in Tokens, disk \in DiskOutcomes :
       \E st \in {store_token(file, t, now, disk)} :
         /\ file' = st.file
         /\ last' = StoreCall("store_token", t, NoneTok, st)
  /\ UNCHANGED <<now, token, token_expiry, pc, booking_ids, pos,
                 observe, sessions, tracked>>

GetToken ==
  /\ pc = "idle"
  /\ last' = StoreCall("get_token", NoneTok,
                       IF get_raises(file) THEN NoneTok ELSE get_token(file),
                       NoWrite(file, get_raises(file)))
  /\ UNCHANGED <<now, token, token_expiry, file, pc, booking_ids, pos,
                 observe, sessions, tracked>>

StoreBookingId ==
  /\ pc = "idle"
  /\ \E b \in Ids, disk \in DiskOutcomes :
       \E st \in {store_booking_id(file, b, now, disk)} :
         /\ file' = st.file
         /\ last' = StoreCall("store_booking_id", b, NoneTok, st)
  /\ UNCHANGED <<now, token, token_expiry, pc, booking_ids, pos,
                 observe, sessions, tracked>>

GetBookingIds ==
  /\ pc = "idle"
  /\ last' = StoreCall("get_booking_ids", NoneId,
                       IF get_raises(file) THEN <<>> ELSE get_booking_ids(file),
                       NoWrite(file, get_raises(file)))
  /\ UNCHANGED <<now, token, token_expiry, file, pc, booking_ids, pos,
                 observe, sessions, tracked>>

RemoveBookingId ==
  /\ pc = "idle"
  /\ \E b \in Ids, disk \in DiskOutcomes :
       \E st \in {remove_booking_id(file, b, disk)} :
         /\ file' = st.file
         /\ last' = StoreCall("remove_booking_id", b, NoneTok, st)
  /\ UNCHANGED <<now, token, token_expiry, pc, booking_ids, pos,
                 observe, sessions, tracked>>

ClearStore ==
  /\ pc = "idle"
  /\ \E disk \in DiskOutcomes :
       \E st \in {clear_store(file, disk)} :
         /\ file' = st.file
         /\ last' = StoreCall("clear", NoneId, NoneTok, st)
  /\ UNCHANGED <<now, token, token_expiry, pc, booking_ids, pos,
                 observe, sessions, tracked>>

\* BookingAPIClient(): _attempt_self_healing calls get_token first, and
\* what it raises leaves __init__.
Construct ==
  /\ pc = "idle"
  /\ IF get_raises(file)
     THEN UNCHANGED <<token, token_expiry>>
     ELSE /\ token' = attempt_self_healing(file).token
          /\ token_expiry' = attempt_self_healing(file).token_expiry
  /\ last' = StoreCall("construct", NoneId, NoneTok,
                       NoWrite(file, get_raises(file)))
  /\ UNCHANGED <<now, file, pc, booking_ids, pos, observe, sessions, tracked>>

NextStore ==
  \/ Tick
  \/ StoreToken
  \/ GetToken
  \/ StoreBookingId
  \/ GetBookingIds
  \/ RemoveBookingId
  \/ ClearStore
  \/ Construct

\* Contents of the backing file that hold no ledger: no file; an empty or
\* truncated file or other text that is not JSON; an object whose text
\* json.load cannot decode; valid JSON that is not an object.
BadFiles ==
  {AbsentFile, CorruptFile, JsonFile("token" :> <<"x", Quote>>), ArrayFile}

InitStoreAny ==
  /\ now = 0
  /\ file \in BadFiles
  /\ token = NoneTok
  /\ token_expiry = NoneTime
  /\ pc = "idle"
  /\ booking_ids = <<>>
  /\ pos = 0
  /\ observe = {}
  /\ tracked = {}
  /\ sessions = [s \in Sessions |-> NoSession]
  /\ last = Last("other", NoneId,
                 Result(attempt_self_healing(AbsentFile), <<>>, NoResponse, FALSE))

\* The store called directly, from no file and from every content of it.
SpecStore == Init /\ [][NextStore]_vars
SpecStoreAny == InitStoreAny /\ [][NextStore]_vars

\* ------------------------------------------------- sessions sharing the file
\* Sessions that run over one DATA_FILE. A store operation of a session is
\* three steps, between which the other session may run: _load_data with the
\* change of the loaded data; open(..., "w"), which truncates the file;
\* json.dump, which writes the data. The requests succeed and the disk does
\* not fail.
Loaded(data) == [pc |-> "loaded", data |-> data, acted |-> TRUE,
                 mixed |-> FALSE]
Acted(session) == [session EXCEPT !.pc = "idle", !.acted = TRUE]
OthersUnchanged == UNCHANGED <<now, token, token_expiry, pc, booking_ids, pos,
                               observe, last>>

\* create_booking of a session: the service answers 200 with the id b, and
\* store_booking_id loads the file (lines 28-33).
SharedCreate ==
  /\ \E s \in Sessions, b \in Ids :
       /\ sessions[s].pc = "idle"
       /\ sessions' = [sessions EXCEPT ![s] =
            IF TruthyId(b)
            THEN Loaded(with_booking_id(load_data(file), get_booking_ids(file),
                                        b, now))
            ELSE Acted(@)]
       /\ Track(tracked \cup {b})
  /\ UNCHANGED file
  /\ OthersUnchanged

\* delete_booking of a session: the service answers 201, and
\* remove_booking_id loads the file (lines 45-47).
SharedDelete ==
  /\ \E s \in Sessions, b \in Ids :
       /\ sessions[s].pc = "idle"
       /\ sessions' = [sessions EXCEPT ![s] =
            IF b \in Range(get_booking_ids(file))
            THEN Loaded(Put(load_data(file), "booking_ids",
                            ListRemove(get_booking_ids(file), b)))
            ELSE Acted(@)]
       /\ Track(tracked \ {b})
  /\ UNCHANGED file
  /\ OthersUnchanged

\* _save_data, line 74: open(DATA_FILE, "w") leaves an empty file.
SharedOpen ==
  /\ \E s \in Sessions :
       /\ sessions[s].pc = "loaded"
       /\ sessions' = [sessions EXCEPT ![s].pc = "opened"]
  /\ file' = CorruptFile
  /\ UNCHANGED tracked
  /\ OthersUnchanged

\* _save_data, line 75: json.dump writes from the start of the file. What a
\* session that opened the file earlier writes later lies over this text,
\* and the end of this text may stay behind it: the file then holds the data
\* of that session or no JSON text.
SharedDump ==
  /\ \E s \in Sessions :
       /\ sessions[s].pc = "opened"
       /\ file' \in {JsonFile(json_dump(sessions[s].data))}
                    \cup (IF sessions[s].mixed THEN {CorruptFile} ELSE {})
       /\ sessions' = [t \in Sessions |->
            IF t = s THEN [sessions[s] EXCEPT !.pc = "idle", !.mixed = FALSE]
            ELSE [sessions[t] EXCEPT !.mixed = (@ \/ sessions[t].pc = "opened")]]
  /\ UNCHANGED tracked
  /\ OthersUnchanged

NextShared ==
  \/ SharedCreate
  \/ SharedDelete
  \/ SharedOpen
  \/ SharedDump

SpecShared == InitObserving({"ledger"}) /\ [][NextShared]_vars

\* ---------------------------------------------------------------- claims
\* C1: between two operations of the one running session, get_booking_ids()
\* holds exactly the ids i, 0 included, that a create_booking returning
\* status 200 with bookingid i has tracked since the last clear and that no
\* delete_booking(i) returning status 201 has removed since.
C1_LedgerInvariant ==
  pc = "idle" => Range(get_booking_ids(file)) = tracked

\* The DELETE requests among the requests of an operation.
DeleteCount(reqs) == Cardinality({i \in 1..Len(reqs) : reqs[i] = "DELETE"})
\* The operation ended in its re-authentication, which raised.
AuthRaised(rec) == rec.raised /\ rec.reqs = <<"AUTH">>
\* The backing file holds an empty ledger: no token, no booking ids.
LedgerEmpty == get_token(file) = NoneTok /\ get_booking_ids(file) = <<>>

\* C2 as stated: cleanup_test_data() has issued a DELETE request for every
\* id that was in the ledger when it started, each exactly once, whatever
\* the outcome of the others, and the ledger is empty when it returns.
C2_SweepDeletesEveryId ==
  last.op = "cleanup_test_data"
  => /\ last.turns = last.ids
     /\ last.unsent = <<>>
     /\ ~last.raised => LedgerEmpty

\* C2 as amended: cleanup_test_data() calls delete_booking once for every id
\* that was in the ledger when it started, in order and whatever the outcome
\* of the others; each call issues exactly one DELETE request unless its
\* re-authentication raised, and then it issues none; the ledger is empty
\* when cleanup_test_data() returns.
C2_Sweep ==
  /\ last.op = "cleanup_turn"
     => /\ last.turns = SubSeq(last.ids, 1, Len(last.turns))
        /\ DeleteCount(last.reqs) = (IF AuthRaised(last) THEN 0 ELSE 1)
        /\ (last.id \in Range(last.unsent)) = AuthRaised(last)
  /\ last.op = "cleanup_test_data"
     => /\ last.turns = last.ids
        /\ ~last.raised => LedgerEmpty

\* A sweep over two ids or more has returned; the re-authentication of its
\* first turn raised, and the later turns issued their DELETE requests.
C2_SweepWitness ==
  /\ last.op = "cleanup_test_data"
  /\ ~last.raised
  /\ Len(last.ids) >= 2
  /\ last.unsent = <<last.ids[1]>>

\* The ledger holds a token stored less than its lifetime ago.
StoredTokenFresh ==
  /\ TruthyTok(get_token(file))
  /\ "token_timestamp" \in DOMAIN load_data(file)
  /\ now < load_data(file)["token_timestamp"] + TokenTTL

\* C3: when a new BookingAPIClient has been constructed over a file whose
\* token was stored less than an hour ago, its authenticate() issues no
\* /auth request and keeps the recovered token as the session token.
C3_TokenReuse ==
  [][(/\ last.op = "new"
      /\ StoredTokenFresh
      /\ last'.op = "authenticate")
     => (last'.reqs = <<>> /\ token' = get_token(file))]_vars

\* C4 as stated: a new BookingAPIClient constructed over the file of a
\* session that stopped between two operations finds every id the ledger
\* held, and its cleanup_test_data(), run first, has issued a DELETE request
\* for each of them.
C4_OrphansDeleted ==
  /\ last.op = "new" => get_booking_ids(file) = last.ids
  /\ (last.op = "cleanup_test_data" /\ last.first)
     => (last.turns = last.ids /\ last.unsent = <<>>)

\* C4 as amended: the construction of the new BookingAPIClient leaves the
\* ids of the ledger as the stopped session left them; its
\* cleanup_test_data(), run first, iterates over exactly these ids and calls
\* delete_booking once for each, and each call issues one DELETE request
\* unless its re-authentication raised.
C4_OrphanRecovery ==
  [][/\ last'.op = "new" => get_booking_ids(file') = get_booking_ids(file)
     /\ (last.op = "new" /\ last'.op = "cleanup_begin")
        => (last'.first /\ booking_ids' = last.ids /\ last'.ids = last.ids)
     /\ (last'.op = "cleanup_turn" /\ last'.first)
        => /\ last'.turns = SubSeq(last'.ids, 1, Len(last'.turns))
           /\ DeleteCount(last'.reqs) = (IF AuthRaised(last') THEN 0 ELSE 1)
           /\ (last'.id \in Range(last'.unsent)) = AuthRaised(last')
     /\ (last'.op = "cleanup_test_data" /\ last'.first)
        => last'.turns = last'.ids]_vars

\* The first operation of a new session, a sweep, has found two orphaned
\* ids or more and issued a DELETE request for each.
C4_OrphanRecoveryWitness ==
  /\ last.op = "cleanup_test_data"
  /\ last.first
  /\ Len(last.ids) >= 2
  /\ last.unsent = <<>>

\* C5: when the session holds a token and now < token_expiry, authenticate()
\* issues no request and returns a response of status 200 whose body,
\* parsed, carries exactly the cached token; token, token_expiry and the
\* ledger are as before.
C5_CachedAuth ==
  [][(is_token_valid(World, now) /\ last'.op = "authenticate")
     => /\ last'.reqs = <<>>
        /\ ~last'.raised
        /\ last'.resp.status = StatusOK
        /\ json(last'.resp).ok
        /\ json(last'.resp).value = ("token" :> token)
        /\ UNCHANGED <<token, token_expiry, file>>]_vars

MutatingOps == {"update_booking", "partial_update_booking", "delete_booking"}
Verb(op) ==
  CASE op = "update_booking" -> "PUT"
    [] op = "partial_update_booking" -> "PATCH"
    [] OTHER -> "DELETE"

\* C6 as stated: update_booking, partial_update_booking and delete_booking
\* issue an /auth request and then their own request when the token is not
\* locally valid at the call, and their own request alone when it is; their
\* own request is sent exactly once.
C6_ReauthThenRequest ==
  [][last'.op \in MutatingOps
     => last'.reqs = (IF is_token_valid(World, now) THEN <<>> ELSE <<"AUTH">>)
                     \o <<Verb(last'.op)>>]_vars

\* C6 as amended: when the token is locally valid at the call the operation
\* issues its own request, once, and no /auth request; when it is not, the
\* operation issues an /auth request first and then its own request, once,
\* unless the re-authentication raises: then the operation raises having
\* issued the /auth request alone.
C6_Reauth ==
  [][last'.op \in MutatingOps
     => IF is_token_valid(World, now)
        THEN last'.reqs = <<Verb(last'.op)>>
        ELSE \/ last'.reqs = <<"AUTH", Verb(last'.op)>>
             \/ AuthRaised(last')]_vars

\* update_booking has found the token not valid, re-authenticated, sent its
\* PUT request and returned.
C6_ReauthWitness ==
  /\ last.op = "update_booking"
  /\ last.reqs = <<"AUTH", "PUT">>
  /\ ~last.raised

\* C7: delete_booking(id) that returns a status other than 201 leaves the
\* ids of the ledger as they were; one that returns 201 leaves them without
\* id and otherwise as they were; one that raises leaves them as they were
\* unless a write of the backing file was interrupted.
C7_DeleteOn201 ==
  [][last'.op = "delete_booking"
     => /\ (~last'.raised /\ last'.resp.status # StatusDeleted)
           => get_booking_ids(file') = get_booking_ids(file)
        /\ (~last'.raised /\ last'.resp.status = StatusDeleted)
           => get_booking_ids(file')
              = SelectSeq(get_booking_ids(file), LAMBDA b : b # last'.id)
        /\ last'.raised
           => \/ get_booking_ids(file') = get_booking_ids(file)
              \/ file' = CorruptFile]_vars

\* delete_booking(id) for a tracked id has returned a status other than 201
\* and the id is still tracked.
C7_DeleteOn201Witness ==
  /\ last.op = "delete_booking"
  /\ ~last.raised
  /\ last.resp.status # StatusDeleted
  /\ last.id \in Range(get_booking_ids(file))

\* authenticate() has made its remote call and returned the response.
AuthReturned(rec) ==
  rec.op = "authenticate" /\ rec.reqs = <<"AUTH">> /\ ~rec.raised
\* The token of the body of a response, None when it has none.
BodyToken(resp) == Get(resp.body, "token", NoneTok)
AuthSucceeded(rec) ==
  AuthReturned(rec) /\ rec.resp.status = StatusOK /\ TruthyTok(BodyToken(rec.resp))
AuthFailed(rec) ==
  AuthReturned(rec)
  /\ (rec.resp.status # StatusOK \/ ~TruthyTok(BodyToken(rec.resp)))
\* The responses the service gives to an /auth request.
AuthResponses == {n.resp : n \in {m \in AuthNets : ~m.raise}}

\* C9: when authenticate() has made its remote call, received status 200
\* with a token t and returned, the session token is t, token_expiry is the
\* time of the call plus one hour, and get_token() returns t.
C9_AuthSuccess ==
  [][AuthSucceeded(last')
     => /\ token' = BodyToken(last'.resp)
        /\ token_expiry' = now + TokenTTL
        /\ get_token(file') = BodyToken(last'.resp)]_vars

\* authenticate() has returned the 200 response of the service, with its
\* token, and the session holds that token for the hour to come.
C9_AuthSuccessWitness ==
  /\ AuthSucceeded(last)
  /\ token = BodyToken(last.resp)
  /\ token_expiry = now + TokenTTL

\* C10 as stated: when authenticate() has made its remote call and received
\* a status other than 200, or 200 with no token, token and token_expiry are
\* as before the call, the token is still not valid, the backing file is as
\* before and the response returned is the response of the service.
C10_AuthFailureKeepsToken ==
  [][AuthFailed(last')
     => /\ token' = token
        /\ token_expiry' = token_expiry
        /\ ~is_token_valid([token |-> token', token_expiry |-> token_expiry',
                            file |-> file'], now')
        /\ file' = file
        /\ last'.resp \in AuthResponses]_vars

\* C10 as amended: when authenticate() has made its remote call and received
\* a status other than 200, token and token_expiry are as before the call;
\* when it received 200 with no token, token_expiry is as before and the
\* session token is None; in both cases the token is still not valid, the
\* backing file is as before and the response returned is the response of
\* the service.
C10_AuthFailure ==
  [][AuthFailed(last')
     => /\ token' = (IF last'.resp.status = StatusOK THEN NoneTok ELSE token)
        /\ token_expiry' = token_expiry
        /\ ~is_token_valid([token |-> token', token_expiry |-> token_expiry',
                            file |-> file'], now')
        /\ file' = file
        /\ last'.resp \in AuthResponses]_vars

\* authenticate() has returned a 200 response that carries no token, and
\* the session no longer holds the token the ledger still has.
C10_AuthFailureWitness ==
  /\ AuthFailed(last)
  /\ last.resp.status = StatusOK
  /\ token = NoneTok
  /\ TruthyTok(get_token(file))

\* C8: when create_booking returns a response of status 200 whose body
\* holds bookingid b, whatever integer b is, get_booking_ids() contains b.
C8_CreateTracks ==
  (/\ last.op = "create_booking"
   /\ ~last.raised
   /\ last.resp.status = StatusOK
   /\ "bookingid" \in DOMAIN last.resp.body)
  => last.resp.body["bookingid"] \in Range(get_booking_ids(file))

\* The file holds no ledger: _load_data does not get a JSON object from it.
HoldsNoLedger(f) == f.kind # "json" \/ ~json_load_ok(f.data)

\* C11: a store operation or a client construction called on a file that
\* holds no ledger - absent, empty, truncated, not JSON, or JSON that is
\* not an object - raises nothing (unless its own write fails) and does
\* what it does on an empty ledger: the reads return no token and no ids,
\* store_token and store_booking_id leave a ledger that holds what they
\* stored and nothing else, remove_booking_id changes nothing, the new
\* client holds no token.
C11_ReadTolerance ==
  (last.op \in StoreOps /\ HoldsNoLedger(last.file0))
  => /\ last.raised => last.wfail
     /\ last.op = "get_token" => last.value = NoneTok
     /\ last.op = "get_booking_ids" => last.value = <<>>
     /\ (last.op = "store_token" /\ ~last.raised)
        => (get_token(file) = last.arg /\ get_booking_ids(file) = <<>>)
     /\ (last.op = "store_booking_id" /\ ~last.raised)
        => (get_booking_ids(file) = <<last.arg>> /\ get_token(file) = NoneTok)
     /\ last.op = "remove_booking_id" => file = last.file0
     /\ last.op = "construct" => token = NoneTok

ClientOps ==
  {"authenticate", "create_booking", "delete_booking", "cleanup_test_data"}

\* C12 as stated: no client operation completes normally after a write of
\* the file failed in it; the writes of the turns of the sweep are writes of
\* cleanup_test_data.
C12_WriteFailuresPropagate ==
  (last.op \in ClientOps /\ (last.wfail \/ last.swallowed)) => last.raised

\* C12, amended: a write that fails in authenticate, create_booking or
\* delete_booking, or in the clear that ends cleanup_test_data, raises out
\* of that operation; one that fails in a turn of the sweep raises out of
\* its delete_booking and is caught and logged by the sweep, which goes on.
C12_WriteFailures ==
  /\ (last.op \in ClientOps /\ last.wfail) => last.raised
  /\ (last.op = "cleanup_turn" /\ last.wfail) => (last.raised /\ last.warned)

C12_WriteFailuresWitness ==
  /\ last.op = "cleanup_test_data"
  /\ last.swallowed
  /\ last.wfail
  /\ last.raised

Occurrences(ids, i) == Cardinality({k \in 1..Len(ids) : ids[k] = i})

\* C13: after any sequence of store_booking_id, remove_booking_id,
\* store_token and clear calls from an empty ledger, every id occurs at most
\* once in the ledger; a store_booking_id(i) that returns leaves i in it
\* exactly once, and when i was in it already the tracked ids are as before.
C13_NoDuplicates ==
  /\ \A i \in Ids : Occurrences(get_booking_ids(file), i) <= 1
  /\ (last.op = "store_booking_id" /\ ~last.raised)
     => /\ Occurrences(get_booking_ids(file), last.arg) = 1
        /\ last.arg \in Range(get_booking_ids(last.file0))
           => get_booking_ids(file) = get_booking_ids(last.file0)

C13_NoDuplicatesWitness ==
  /\ last.op = "store_booking_id"
  /\ ~last.raised
  /\ last.arg \in Range(get_booking_ids(last.file0))
  /\ Len(get_booking_ids(file)) = 2

\* C14: remove_booking_id(i) for an id i that is not in the ledger - the
\* file absent or holding no ledger, the ledger without a booking_ids field
\* or with other ids - leaves the file as it is and does not raise.
C14_RemovalNoOp ==
  (last.op = "remove_booking_id"
   /\ last.arg \notin Range(get_booking_ids(last.file0)))
  => (file = last.file0 /\ ~last.raised)

C14_RemovalNoOpWitness ==
  /\ last.op = "remove_booking_id"
  /\ last.file0.kind = "json"
  /\ json_load_ok(last.file0.data)
  /\ "booking_ids" \notin DOMAIN load_data(last.file0)
  /\ get_token(last.file0) # NoneTok

\* C15: a store_token(t) that returns is followed by get_token() = t, and
\* the store_booking_id and remove_booking_id calls that return after it
\* keep what get_token() returns, so that it is still t after any number of
\* them; after a clear that returns, get_token() is none and
\* get_booking_ids() is empty.
C15_TokenRoundTrip ==
  /\ (last.op = "store_token" /\ ~last.raised) => get_token(file) = last.arg
  /\ (last.op \in {"store_booking_id", "remove_booking_id"} /\ ~last.raised)
     => get_token(file) = get_token(last.file0)
  /\ (last.op = "clear" /\ ~last.raised)
     => (get_token(file) = NoneTok /\ get_booking_ids(file) = <<>>)

C15_TokenRoundTripWitness ==
  /\ last.op = "store_booking_id"
  /\ ~last.raised
  /\ get_token(file) = <<"x", Quote>>
  /\ Len(get_booking_ids(file)) = 2

Field(f, k) == IF k \in DOMAIN load_data(f) THEN <<load_data(f)[k]>> ELSE <<>>

\* C20: a store_token that returns leaves booking_ids and last_updated as
\* they were; a store_booking_id or remove_booking_id that returns leaves
\* token and token_timestamp as they were; get_token, get_booking_ids and
\* the construction of a client leave the file as it was.
C20_FieldIndependence ==
  /\ (last.op = "store_token" /\ ~last.raised)
     => \A k \in {"booking_ids", "last_updated"} :
          Field(file, k) = Field(last.file0, k)
  /\ (last.op \in {"store_booking_id", "remove_booking_id"} /\ ~last.raised)
     => \A k \in {"token", "token_timestamp"} :
          Field(file, k) = Field(last.file0, k)
  /\ last.op \in {"get_token", "get_booking_ids", "construct"}
     => file = last.file0

C20_FieldIndependenceWitness ==
  /\ last.op = "store_token"
  /\ ~last.raised
  /\ get_token(last.file0) \notin {NoneTok, last.arg}
  /\ Len(get_booking_ids(file)) = 2
  /\ Field(last.file0, "token_timestamp") # Field(file, "token_timestamp")

\* A create_booking that received a status other than 200, a delete_booking
\* that received a status other than 201.
NonSuccess(rec) ==
  /\ ~rec.raised
  /\ \/ rec.op = "create_booking" /\ rec.resp.status # StatusOK
     \/ rec.op = "delete_booking" /\ rec.resp.status # StatusDeleted

\* C16 as stated: a create_booking that receives a status other than 200 and
\* a delete_booking that receives a status other than 201 leave the whole
\* ledger as it was.
C16_NoMutationOnNonSuccess ==
  [][NonSuccess(last') => file' = file]_vars

\* C16, amended: such a call returns the response of the service and leaves
\* booking_ids and last_updated as they were; create_booking leaves the
\* whole ledger as it was, and delete_booking changes it only by the token
\* and token_timestamp that its re-authentication stored, the token it held
\* being not valid.
C16_NoBookkeeping ==
  [][NonSuccess(last')
     => /\ last'.resp \in {n.resp : n \in CreateNets \cup DeleteNets}
        /\ \A k \in {"booking_ids", "last_updated"} :
             Field(file', k) = Field(file, k)
        /\ file' # file
           => /\ last'.op = "delete_booking"
              /\ ~is_token_valid(World, now)
              /\ last'.reqs = <<"AUTH", "DELETE">>
              /\ get_token(file') = token'
              /\ TruthyTok(token')]_vars

C16_NoBookkeepingWitness ==
  /\ last.op = "delete_booking"
  /\ NonSuccess(last)
  /\ last.reqs = <<"AUTH", "DELETE">>
  /\ get_token(file) = token
  /\ TruthyTok(token)
  /\ get_booking_ids(file) # <<>>

\* C17 as stated: in cleanup_test_data every deletion that fails, by a
\* status other than 201 or by an exception, is logged for its id before
\* the sweep goes on.
C17_SweepFailureLogged ==
  (last.op = "cleanup_turn"
   /\ (last.raised \/ last.resp.status # StatusDeleted))
  => last.warned

\* The status with which the service tells that the mutation was done.
SuccessStatus(op) == IF op = "delete_booking" THEN StatusDeleted ELSE StatusOK

\* C18 as stated: a create_booking, update_booking, partial_update_booking
\* or delete_booking whose remote mutation succeeded has called, in the same
\* call, a store operation that writes the file.
C18_BookkeepingAttempted ==
  (/\ last.op \in {"create_booking"} \cup MutatingOps
   /\ ~last.raised
   /\ last.resp.status = SuccessStatus(last.op))
  => last.calls # <<>>

AllIdle == \A s \in Sessions : sessions[s].pc = "idle"
Lost == tracked \ Range(get_booking_ids(file))

\* C19, its second half as stated: while a single session has run, each of
\* its operations to completion, every id created with a 200 response and
\* not deleted since is in the ledger. (Its first half says that a state
\* where such an id is not in the ledger is reached when two sessions
\* interleave.)
C19_SingleSessionLosesNoId ==
  (AllIdle /\ Cardinality({s \in Sessions : sessions[s].acted}) <= 1)
  => Lost = {}
====
